---- MODULE Spec2Model ----
(***************************************************************************)
(* Model of pkg/internal/limitrange/transformer.go: the pod transformer    *)
(* that projects a LimitRange's defaults onto the containers of a pod.     *)
(*                                                                         *)
(* Go maps are reference values, so a corev1.ResourceList is modelled as a *)
(* pointer (an address) into `heap`; NIL is the nil map.  A                *)
(* resource.Quantity is modelled by its exact amount, counted in           *)
(* micro-units (1 unit = 1000 milli = 1000000 micro).                      *)
(***************************************************************************)
EXTENDS Integers, Sequences, FiniteSets, TLC

VARIABLES
    heap,         \* address -> ResourceList (function from resource names to quantities)
    limitRanges,  \* the LimitRange objects the lister can return: index -> sequence of items
    pod,          \* [InitContainers, Containers], each a sequence of [Requests, Limits] pointers
    calls,        \* number of invocations of the transformer so far
    last,         \* the last invocation: resolver outcome, returned error, locals, pre-state
    ret           \* the last direct call of one of the default-computing functions

vars == <<heap, limitRanges, pod, calls, last, ret>>

-----------------------------------------------------------------------------
(* Bounds *)

MaxCalls == 2        \* invocations of the transformer on the pod
MaxInit == 1         \* init containers of the pod
MaxApp == 2          \* app containers of the pod
MaxItems == 2        \* items of a LimitRange handed to the default-computing functions
MaxNb == 3           \* nbContainers handed to getDefaultAppContainerRequest

-----------------------------------------------------------------------------
(* Quantities *)

MilliScale == 1000       \* micro-units per milli-unit
UnitScale == 1000000     \* micro-units per unit

\* resource.Quantity.Value(): the amount in whole units, rounded up
Value(q) == (q + UnitScale - 1) \div UnitScale

\* resource.Quantity.MilliValue(): the amount in milli-units, rounded up
MilliValue(q) == (q + MilliScale - 1) \div MilliScale

NewQuantity(v) == v * UnitScale

NewMilliQuantity(m) == m * MilliScale

\* a.Cmp(b): -1, 0 or 1
Cmp(a, b) == IF a < b THEN -1 ELSE IF a > b THEN 1 ELSE 0

isZero(q) == q = 0

-----------------------------------------------------------------------------
(* Resource names, resource lists and pointers to them *)

ResourceCPU == "cpu"
ResourceMemory == "memory"
ResourceEphemeralStorage == "ephemeral-storage"
ResourceGPU == "nvidia.com/gpu"     \* a resource name the transformer does not know

resourceNames == <<ResourceCPU, ResourceMemory, ResourceEphemeralStorage>>

ResourceNameSet == {ResourceCPU, ResourceMemory, ResourceEphemeralStorage, ResourceGPU}

LimitTypeContainer == "Container"
LimitTypePod == "Pod"

NIL == <<"nil", 0, 0, "">>

NoErr == "nil"

\* m[name] on a Go map: the zero Quantity when the key is absent
Get(m, name) == IF name \in DOMAIN m THEN m[name] ELSE 0

\* m[name] = q on a Go map
Put(m, name, q) == [n \in (DOMAIN m) \cup {name} |-> IF n = name THEN q ELSE m[n]]

\* list[name] through a pointer; reading a nil map yields the zero Quantity
Read(h, ptr, name) == IF ptr = NIL THEN 0 ELSE Get(h[ptr], name)

-----------------------------------------------------------------------------
(* The default-computing functions *)

takeTheMax_Overwrite(requestQ, defaultQ, maxQ) ==
    IF Cmp(maxQ, defaultQ) > 0 THEN maxQ ELSE defaultQ

takeTheMax(requestQ, defaultQ, maxQ) ==
    LET q1 == IF Cmp(defaultQ, requestQ) > 0 THEN defaultQ ELSE requestQ
    IN  IF Cmp(maxQ, q1) > 0 THEN maxQ ELSE q1

\* lines 118-122: the share of defaultRequest that one of nbContainers gets
dividedRequest(name, defaultRequest, nbContainers) ==
    IF name = ResourceMemory \/ name = ResourceEphemeralStorage
    THEN NewQuantity(Value(defaultRequest) \div nbContainers)
    ELSE NewMilliQuantity(MilliValue(defaultRequest) \div nbContainers)

\* lines 108-123: the loop over resourceNames for one item, from index k on
RECURSIVE appRequestNames(_, _, _, _, _)
appRequestNames(h, r, item, nbContainers, k) ==
    IF k > Len(resourceNames) THEN r
    ELSE LET name == resourceNames[k]
             request == Get(r, name)
             defaultRequest == IF item.DefaultRequest # NIL
                               THEN Read(h, item.DefaultRequest, name) ELSE 0
             min == IF item.Min # NIL THEN Read(h, item.Min, name) ELSE 0
             q == takeTheMax(request,
                             dividedRequest(name, defaultRequest, nbContainers), min)
         IN  appRequestNames(h, Put(r, name, q), item, nbContainers, k + 1)

\* lines 105-125: the loop over the items, from index i on
RECURSIVE appRequestItems(_, _, _, _, _)
appRequestItems(h, r, limitRange, nbContainers, i) ==
    IF i > Len(limitRange) THEN r
    ELSE LET item == limitRange[i]
             r2 == IF item.Type = LimitTypeContainer
                   THEN appRequestNames(h, r, item, nbContainers, 1) ELSE r
         IN  appRequestItems(h, r2, limitRange, nbContainers, i + 1)

\* The contents of the fresh map the function returns (nbContainers >= 1).
getDefaultAppContainerRequest(h, limitRange, nbContainers) ==
    appRequestItems(h, <<>>, limitRange, nbContainers, 1)

\* An integer division by zero panics: it is executed as soon as the loop
\* meets a Container item.
divisionPanics(limitRange, nbContainers) ==
    /\ nbContainers = 0
    /\ \E i \in 1..Len(limitRange) : limitRange[i].Type = LimitTypeContainer

RECURSIVE initRequestItems(_, _, _)
initRequestItems(limitRange, r, i) ==
    IF i > Len(limitRange) THEN r
    ELSE LET item == limitRange[i]
             r2 == IF item.Type = LimitTypeContainer
                   THEN IF item.DefaultRequest # NIL THEN item.DefaultRequest
                        ELSE IF item.Min # NIL THEN item.Min ELSE r
                   ELSE r
         IN  initRequestItems(limitRange, r2, i + 1)

\* Returns a pointer: the policy's own map, not a copy.
getDefaultInitContainerRequest(limitRange) == initRequestItems(limitRange, NIL, 1)

RECURSIVE limitItems(_, _, _)
limitItems(limitRange, l, i) ==
    IF i > Len(limitRange) THEN l
    ELSE LET item == limitRange[i]
             l2 == IF item.Type = LimitTypeContainer
                   THEN IF item.Default # NIL THEN item.Default
                        ELSE IF item.Max # NIL THEN item.Max ELSE l
                   ELSE l
         IN  limitItems(limitRange, l2, i + 1)

getDefaultLimits_FirstWins(limitRange) ==
    LET L == {i \in DOMAIN limitRange :
                 /\ limitRange[i].Type = LimitTypeContainer
                 /\ (limitRange[i].Default # NIL \/ limitRange[i].Max # NIL)}
        first == CHOOSE i \in L : \A j \in L : i <= j
    IN  IF L = {} THEN NIL
        ELSE IF limitRange[first].Default # NIL
             THEN limitRange[first].Default ELSE limitRange[first].Max

\* Returns a pointer: the policy's own map, not a copy.
getDefaultLimits(limitRange) == limitItems(limitRange, NIL, 1)

-----------------------------------------------------------------------------
(* The transformer *)

setRequestsOrLimits_Raise(h, name, dst, src) ==
    IF Read(h, src, name) > Read(h, dst, name)
    THEN [h EXCEPT ![dst] = Put(@, name, Read(h, src, name))]
    ELSE h

setRequestsOrLimits_Add(h, name, dst, src) ==
    IF ~isZero(Read(h, src, name))
    THEN [h EXCEPT ![dst] = Put(@, name, Read(h, dst, name) + Read(h, src, name))]
    ELSE h

\* dst is never nil here; dst and src may be the same map
setRequestsOrLimits(h, name, dst, src) ==
    IF isZero(Read(h, dst, name)) /\ ~isZero(Read(h, src, name))
    THEN [h EXCEPT ![dst] = Put(@, name, Read(h, src, name))]
    ELSE h

\* for _, name := range resourceNames { setRequestsOrLimits(name, dst, src) }
RECURSIVE setEachName(_, _, _, _)
setEachName(h, dst, src, k) ==
    IF k > Len(resourceNames) THEN h
    ELSE setEachName(setRequestsOrLimits(h, resourceNames[k], dst, src), dst, src, k + 1)

\* One "if field == nil { field = defaults } else { for ... }" statement:
\* the heap and the field's pointer after it.
defaultField(h, field, defaults) ==
    IF field = NIL
    THEN [heap |-> h, ptr |-> defaults]
    ELSE [heap |-> setEachName(h, field, defaults, 1), ptr |-> field]

\* One of the two loops over containers, from index i on.
RECURSIVE defaultContainers(_, _, _, _, _)
defaultContainers(h, cs, requests, limits, i) ==
    IF i > Len(cs) THEN [heap |-> h, containers |-> cs]
    ELSE LET r == defaultField(h, cs[i].Requests, requests)
             l == defaultField(r.heap, cs[i].Limits, limits)
         IN  defaultContainers(l.heap,
                               [cs EXCEPT ![i] = [Requests |-> r.ptr, Limits |-> l.ptr]],
                               requests, limits, i + 1)

nbContainers_All(p) == Len(p.InitContainers) + Len(p.Containers)

nbContainers(p) == Len(p.Containers)

\* The errors getVirtualLimitRange can return.
Errors == {"not found", "context canceled"}

Outcome(kind, err, h, p, nb, dl, di, dr) ==
    [kind |-> kind, err |-> err, heap |-> h, pod |-> p, nbContainers |-> nb,
     defaultLimits |-> dl, defaultInitRequests |-> di, defaultRequests |-> dr]

bail_SwallowError(h, p, res, k) == Outcome("bail", NoErr, h, p, 0, NIL, NIL, NIL)

\* The early returns of the transformer (lines 37-44).
bail(h, p, res, k) == Outcome("bail", res.err, h, p, 0, NIL, NIL, NIL)

\* The function NewTransformer returns, applied to pod p on heap h with the
\* resolver answering res; k numbers the invocation.
transformer(h, p, res, k) ==
    IF res.err # NoErr \/ res.limitRange = 0
    THEN bail(h, p, res, k)
    ELSE LET limitRange == limitRanges[res.limitRange]
             nb == nbContainers(p)
             defaultLimits == getDefaultLimits(limitRange)
             defaultInitRequests == getDefaultInitContainerRequest(limitRange)
             ini == defaultContainers(h, p.InitContainers, defaultInitRequests,
                                      defaultLimits, 1)
             p1 == [p EXCEPT !.InitContainers = ini.containers]
         IN  IF divisionPanics(limitRange, nb)
             THEN Outcome("panic", NoErr, ini.heap, p1, nb,
                          defaultLimits, defaultInitRequests, NIL)
             ELSE LET defaultRequests == <<"new", k, 0, "Requests">>
                      h1 == ini.heap @@ (defaultRequests :>
                                getDefaultAppContainerRequest(ini.heap, limitRange, nb))
                      app == defaultContainers(h1, p.Containers, defaultRequests,
                                               defaultLimits, 1)
                  IN  Outcome("done", NoErr, app.heap,
                              [p1 EXCEPT !.Containers = app.containers], nb,
                              defaultLimits, defaultInitRequests, defaultRequests)

-----------------------------------------------------------------------------
(* Inputs: resource lists, LimitRange items, containers *)

drA == (ResourceCPU :> 500000 @@ ResourceMemory :> 1500000 @@ ResourceGPU :> 1000000)
drB == (ResourceCPU :> 1500 @@ ResourceEphemeralStorage :> 7000000)
minA == (ResourceCPU :> 200000 @@ ResourceMemory :> 1000000)
defA == (ResourceCPU :> 1000000 @@ ResourceMemory :> 2000000 @@ ResourceGPU :> 1000000)
maxA == (ResourceCPU :> 2000000)
reqC == (ResourceCPU :> 100000 @@ ResourceMemory :> 0)
limC == (ResourceCPU :> 500000 @@ ResourceEphemeralStorage :> 0)

\* An optional list is a set holding no list (a nil map) or one list.
TheList(s) == CHOOSE l \in s : TRUE

ItemFields == {"Min", "Max", "Default", "DefaultRequest"}
ContainerFields == {"Requests", "Limits"}

ItemTemplate(t, dr, min, def, max) ==
    [Type |-> t, DefaultRequest |-> dr, Min |-> min, Default |-> def, Max |-> max]

PodItemTemplate == ItemTemplate(LimitTypePod, {drA}, {minA}, {defA}, {maxA})

\* Items of the LimitRanges the transformer is run with.
TransformItems ==
    {ItemTemplate(LimitTypeContainer, {drA}, {minA}, {defA}, {maxA}),
     ItemTemplate(LimitTypeContainer, {}, {minA}, {}, {maxA}),
     ItemTemplate(LimitTypeContainer, {drB}, {}, {defA}, {}),
     ItemTemplate(LimitTypeContainer, {drB}, {}, {}, {}),
     ItemTemplate(LimitTypeContainer, {}, {}, {defA}, {}),
     PodItemTemplate}

TransformPolicies ==
    {<<it>> : it \in TransformItems}
    \cup {<<ItemTemplate(LimitTypeContainer, {drB}, {}, {defA}, {}),
            ItemTemplate(LimitTypeContainer, {drA}, {minA}, {}, {})>>}


\* Items of the LimitRanges the default-computing functions are called with.
DefaultsItems ==
    {ItemTemplate(LimitTypeContainer, dr, min, def, max) :
        dr \in {{}, {drA}, {drB}}, min \in {{}, {minA}},
        def \in {{}, {defA}}, max \in {{}, {maxA}}}
    \cup {PodItemTemplate, ItemTemplate(LimitTypePod, {}, {}, {}, {})}

SeqUpTo(S, n) == UNION {[1..k -> S] : k \in 0..n}

ContainerTemplates ==
    {[Requests |-> {}, Limits |-> {}], [Requests |-> {reqC}, Limits |-> {limC}]}

PodTemplates ==
    {[InitContainers |-> ic, Containers |-> ac] :
        ic \in SeqUpTo(ContainerTemplates, MaxInit),
        ac \in SeqUpTo(ContainerTemplates, MaxApp)}

\* Every list of the templates gets a map of its own.
LimitRangeAddrs(tps) ==
    {<<"lr", x[1], x[2], x[3]>> :
        x \in {y \in (DOMAIN tps) \X (1..MaxItems) \X ItemFields :
                  y[2] <= Len(tps[y[1]]) /\ tps[y[1]][y[2]][y[3]] # {}}}

ContainersOf(p, kind) == IF kind = 0 THEN p.InitContainers ELSE p.Containers

PodAddrs(pt) ==
    {<<"pod", x[1], x[2], x[3]>> :
        x \in {y \in {0, 1} \X (1..(MaxInit + MaxApp)) \X ContainerFields :
                  y[2] <= Len(ContainersOf(pt, y[1]))
                  /\ ContainersOf(pt, y[1])[y[2]][y[3]] # {}}}

PtrOf(s, a) == IF s = {} THEN NIL ELSE a

Setup(tps, pt) ==
    /\ heap = [a \in LimitRangeAddrs(tps) \cup PodAddrs(pt) |->
                  IF a[1] = "lr" THEN TheList(tps[a[2]][a[3]][a[4]])
                  ELSE TheList(ContainersOf(pt, a[2])[a[3]][a[4]])]
    /\ limitRanges =
          [p \in DOMAIN tps |->
              [i \in DOMAIN tps[p] |->
                  [Type |-> tps[p][i].Type,
                   Min |-> PtrOf(tps[p][i].Min, <<"lr", p, i, "Min">>),
                   Max |-> PtrOf(tps[p][i].Max, <<"lr", p, i, "Max">>),
                   Default |-> PtrOf(tps[p][i].Default, <<"lr", p, i, "Default">>),
                   DefaultRequest |->
                       PtrOf(tps[p][i].DefaultRequest, <<"lr", p, i, "DefaultRequest">>)]]]
    /\ pod =
          [InitContainers |->
              [i \in DOMAIN pt.InitContainers |->
                  [Requests |-> PtrOf(pt.InitContainers[i].Requests, <<"pod", 0, i, "Requests">>),
                   Limits |-> PtrOf(pt.InitContainers[i].Limits, <<"pod", 0, i, "Limits">>)]],
           Containers |->
              [i \in DOMAIN pt.Containers |->
                  [Requests |-> PtrOf(pt.Containers[i].Requests, <<"pod", 1, i, "Requests">>),
                   Limits |-> PtrOf(pt.Containers[i].Limits, <<"pod", 1, i, "Limits">>)]]]
    /\ calls = 0
    /\ last = [res |-> [limitRange |-> 0, err |-> NoErr], kind |-> "none", err |-> NoErr,
               heap |-> heap, pod |-> pod, nbContainers |-> 0,
               defaultLimits |-> NIL, defaultInitRequests |-> NIL, defaultRequests |-> NIL,
               prev |-> [kind |-> "none", limitRange |-> 0]]
    /\ ret = [fn |-> "none", nbContainers |-> 0, ptr |-> NIL, list |-> <<>>]

-----------------------------------------------------------------------------
(* The transformer run on a pod: the lister holds two LimitRange objects *)

Init ==
    \E t1 \in TransformPolicies, t2 \in TransformPolicies, pt \in PodTemplates :
        Setup(<<t1, t2>>, pt)

\* A panic ends the process.
CanInvoke == calls < MaxCalls /\ last.kind # "panic"

\* One invocation, start to end.
Invoke(res) ==
    /\ \E out \in {transformer(heap, pod, res, calls + 1)} :
           /\ heap' = out.heap
           /\ pod' = out.pod
           /\ last' = [res |-> res, kind |-> out.kind, err |-> out.err,
                       heap |-> heap, pod |-> pod, nbContainers |-> out.nbContainers,
                       defaultLimits |-> out.defaultLimits,
                       defaultInitRequests |-> out.defaultInitRequests,
                       defaultRequests |-> out.defaultRequests,
                       prev |-> [kind |-> last.kind, limitRange |-> last.res.limitRange]]
    /\ calls' = calls + 1
    /\ UNCHANGED <<limitRanges, ret>>

\* getVirtualLimitRange returns an error.
TransformResolveFailed ==
    /\ CanInvoke
    /\ \E e \in Errors : Invoke([limitRange |-> 0, err |-> e])

\* getVirtualLimitRange returns no LimitRange and no error.
TransformNoLimitRange ==
    /\ CanInvoke
    /\ Invoke([limitRange |-> 0, err |-> NoErr])

\* getVirtualLimitRange returns one of the lister's LimitRange objects.
TransformLimitRange ==
    /\ CanInvoke
    /\ \E i \in DOMAIN limitRanges : Invoke([limitRange |-> i, err |-> NoErr])

Next == TransformResolveFailed \/ TransformNoLimitRange \/ TransformLimitRange

Spec == Init /\ [][Next]_vars

-----------------------------------------------------------------------------
(* The default-computing functions called directly on one LimitRange *)

InitDefaults ==
    \E t \in SeqUpTo(DefaultsItems, MaxItems) :
        Setup(<<t>>, [InitContainers |-> <<>>, Containers |-> <<>>])

CallGetDefaultLimits ==
    /\ ret' = [fn |-> "getDefaultLimits", nbContainers |-> 0,
               ptr |-> getDefaultLimits(limitRanges[1]), list |-> <<>>]
    /\ UNCHANGED <<heap, limitRanges, pod, calls, last>>

CallGetDefaultInitContainerRequest ==
    /\ ret' = [fn |-> "getDefaultInitContainerRequest", nbContainers |-> 0,
               ptr |-> getDefaultInitContainerRequest(limitRanges[1]), list |-> <<>>]
    /\ UNCHANGED <<heap, limitRanges, pod, calls, last>>

CallGetDefaultAppContainerRequest ==
    \E n \in 1..MaxNb :
        /\ ret' = [fn |-> "getDefaultAppContainerRequest", nbContainers |-> n, ptr |-> NIL,
                   list |-> getDefaultAppContainerRequest(heap, limitRanges[1], n)]
        /\ UNCHANGED <<heap, limitRanges, pod, calls, last>>

NextDefaults ==
    \/ CallGetDefaultLimits
    \/ CallGetDefaultInitContainerRequest
    \/ CallGetDefaultAppContainerRequest

SpecDefaults == InitDefaults /\ [][NextDefaults]_vars

-----------------------------------------------------------------------------
(* Properties *)

KnownNames == {resourceNames[k] : k \in DOMAIN resourceNames}

\* The Requests and Limits fields of the containers of pod p.
Slots(p) ==
    {s \in {0, 1} \X (1..(Len(p.InitContainers) + Len(p.Containers))) \X ContainerFields :
        s[2] <= Len(ContainersOf(p, s[1]))}

FieldPtr(p, s) == ContainersOf(p, s[1])[s[2]][s[3]]

\* The default map the last invocation used for a field.
DefaultsFor(s) ==
    IF s[3] = "Limits" THEN last.defaultLimits
    ELSE IF s[1] = 0 THEN last.defaultInitRequests ELSE last.defaultRequests

SetMax(S) == CHOOSE x \in S : \A y \in S : y <= x

ContainerItems(limitRange) ==
    {i \in DOMAIN limitRange : limitRange[i].Type = LimitTypeContainer}

\* C1: no-regression. An entry of a container's Requests or Limits that was
\* present and nonzero before an invocation has exactly the same value after
\* it, whatever the policy's default for that name.
C1_NoRegression ==
    \A s \in Slots(last.pod) : \A name \in KnownNames :
        (FieldPtr(last.pod, s) # NIL /\ Read(last.heap, FieldPtr(last.pod, s), name) # 0)
        => Read(heap, FieldPtr(pod, s), name) = Read(last.heap, FieldPtr(last.pod, s), name)

\* A container entry survived an invocation whose default for it is larger.
C1_Witness ==
    /\ last.kind = "done"
    /\ \E s \in Slots(last.pod) : \E name \in KnownNames :
          /\ FieldPtr(last.pod, s) # NIL
          /\ Read(last.heap, FieldPtr(last.pod, s), name) # 0
          /\ Read(heap, DefaultsFor(s), name) > Read(last.heap, FieldPtr(last.pod, s), name)
          /\ Read(heap, FieldPtr(pod, s), name) = Read(last.heap, FieldPtr(last.pod, s), name)

\* C2: no aliasing. Two distinct containers whose Requests (or Limits) were
\* both unset before an invocation and were given the default do not hold the
\* same map afterwards.
C2_NoAliasing ==
    last.kind = "done" =>
        \A s1 \in Slots(pod) : \A s2 \in Slots(pod) :
            (/\ s1 # s2
             /\ s1[3] = s2[3]
             /\ FieldPtr(last.pod, s1) = NIL
             /\ FieldPtr(last.pod, s2) = NIL
             /\ FieldPtr(pod, s1) # NIL)
            => FieldPtr(pod, s1) # FieldPtr(pod, s2)

\* The share of quantity q one of n containers gets: floor division of the
\* milli-unit value for CPU, of the whole-unit value for the other names.
ShareOf(name, q, n) ==
    IF name = ResourceCPU THEN (MilliValue(q) \div n) * MilliScale
    ELSE (Value(q) \div n) * UnitScale

\* C3: getDefaultAppContainerRequest(policy, n), n >= 1, returns for each known
\* name the maximum over the Container items of max(share of DefaultRequest,
\* Min), absent entries counting as zero; so it is never below an item's Min.
C3_AppRequestIsMax ==
    ret.fn = "getDefaultAppContainerRequest" =>
        LET limitRange == limitRanges[1]
        IN  \A name \in KnownNames :
              /\ Get(ret.list, name) =
                    SetMax({0} \cup
                        {SetMax({ShareOf(name, Read(heap, limitRange[i].DefaultRequest, name),
                                         ret.nbContainers),
                                 Read(heap, limitRange[i].Min, name)}) :
                            i \in ContainerItems(limitRange)})
              /\ \A i \in ContainerItems(limitRange) :
                    Get(ret.list, name) >= Read(heap, limitRange[i].Min, name)

\* Two Container items and three containers: the ephemeral-storage share
\* floor(7/3) of the first item wins, and for CPU the second item's Min of
\* 200m beats its share floor(500m/3) = 166m.
C3_Witness ==
    /\ ret.fn = "getDefaultAppContainerRequest"
    /\ ret.nbContainers = 3
    /\ Cardinality(ContainerItems(limitRanges[1])) = 2
    /\ Get(ret.list, ResourceEphemeralStorage) = 2 * UnitScale
    /\ Get(ret.list, ResourceCPU) = 200 * MilliScale
    /\ ShareOf(ResourceCPU, Read(heap, limitRanges[1][2].DefaultRequest, ResourceCPU), 3)
          = 166 * MilliScale

\* C4: fill-on-absence. After an invocation with a policy, a container whose
\* Requests was unset holds, name by name, the default map of its class:
\* getDefaultInitContainerRequest(policy) for an init container,
\* getDefaultAppContainerRequest(policy, number of app containers) for an app
\* container.
C4_FillOnAbsence ==
    last.kind \in {"done", "panic"} =>
        LET limitRange == limitRanges[last.res.limitRange]
            initDefaults == getDefaultInitContainerRequest(limitRange)
            appDefaults == getDefaultAppContainerRequest(last.heap, limitRange,
                                                         Len(last.pod.Containers))
        IN  /\ \A i \in DOMAIN last.pod.InitContainers :
                  last.pod.InitContainers[i].Requests = NIL =>
                      \A name \in ResourceNameSet :
                          Read(heap, pod.InitContainers[i].Requests, name)
                            = Read(last.heap, initDefaults, name)
            /\ \A i \in DOMAIN last.pod.Containers :
                  last.pod.Containers[i].Requests = NIL =>
                      \A name \in ResourceNameSet :
                          Read(heap, pod.Containers[i].Requests, name)
                            = Get(appDefaults, name)

\* An init container and an app container, both without Requests, were given
\* nonzero CPU defaults in a pod with init containers and two app containers.
C4_Witness ==
    /\ last.kind = "done"
    /\ Len(pod.Containers) = 2
    /\ \E i \in DOMAIN last.pod.InitContainers :
          /\ last.pod.InitContainers[i].Requests = NIL
          /\ Read(heap, pod.InitContainers[i].Requests, ResourceCPU) # 0
    /\ \E i \in DOMAIN last.pod.Containers :
          /\ last.pod.Containers[i].Requests = NIL
          /\ Read(heap, pod.Containers[i].Requests, ResourceCPU) # 0

\* C5: ignored resource names. A policy entry for a name other than the three
\* known ones is in none of the computed default maps and neither appears in
\* nor changes a container's Requests or Limits.
C5_UnknownNamesIgnored ==
    last.kind = "done" =>
        /\ \A d \in {last.defaultLimits, last.defaultInitRequests, last.defaultRequests} :
              d # NIL => DOMAIN heap[d] \subseteq KnownNames
        /\ \A s \in Slots(pod) : \A name \in ResourceNameSet \ KnownNames :
              Read(heap, FieldPtr(pod, s), name) = Read(last.heap, FieldPtr(last.pod, s), name)

\* C6: all-or-nothing passthrough. When resolution fails the invocation
\* returns the resolver's error, when it yields no policy it returns no error,
\* and either way the pod and every map are as before and no default was
\* computed.
C6_Passthrough ==
    (last.kind # "none" /\ (last.res.err # NoErr \/ last.res.limitRange = 0)) =>
        /\ last.err = last.res.err
        /\ pod = last.pod
        /\ heap = last.heap
        /\ last.defaultLimits = NIL
        /\ last.defaultInitRequests = NIL
        /\ last.defaultRequests = NIL

\* Resolution failed on a pod that has a container with unset fields.
C6_Witness ==
    /\ last.kind = "bail"
    /\ last.res.err # NoErr
    /\ last.err = last.res.err
    /\ \E s \in Slots(pod) : FieldPtr(pod, s) = NIL

LastOf(S) == SetMax(S)

\* C7 as stated: with at least one Container item, getDefaultLimits returns the
\* last Container item's Default if it has one and else its Max, and
\* getDefaultInitContainerRequest its DefaultRequest and else its Min.
C7_LastItemWins ==
    LET limitRange == limitRanges[1]
        C == ContainerItems(limitRange)
    IN  C # {} =>
          /\ ret.fn = "getDefaultLimits" =>
                ret.ptr = IF limitRange[LastOf(C)].Default # NIL
                          THEN limitRange[LastOf(C)].Default ELSE limitRange[LastOf(C)].Max
          /\ ret.fn = "getDefaultInitContainerRequest" =>
                ret.ptr = IF limitRange[LastOf(C)].DefaultRequest # NIL
                          THEN limitRange[LastOf(C)].DefaultRequest
                          ELSE limitRange[LastOf(C)].Min

\* C7 amended: the last Container item that has a Default or a Max decides
\* getDefaultLimits (its Default if it has one, else its Max), the last one
\* that has a DefaultRequest or a Min decides getDefaultInitContainerRequest;
\* with no such item the result is nil.
C7_LastItemWithListWins ==
    LET limitRange == limitRanges[1]
        L == {i \in ContainerItems(limitRange) :
                 limitRange[i].Default # NIL \/ limitRange[i].Max # NIL}
        R == {i \in ContainerItems(limitRange) :
                 limitRange[i].DefaultRequest # NIL \/ limitRange[i].Min # NIL}
    IN  /\ ret.fn = "getDefaultLimits" =>
              ret.ptr = IF L = {} THEN NIL
                        ELSE IF limitRange[LastOf(L)].Default # NIL
                             THEN limitRange[LastOf(L)].Default ELSE limitRange[LastOf(L)].Max
        /\ ret.fn = "getDefaultInitContainerRequest" =>
              ret.ptr = IF R = {} THEN NIL
                        ELSE IF limitRange[LastOf(R)].DefaultRequest # NIL
                             THEN limitRange[LastOf(R)].DefaultRequest
                             ELSE limitRange[LastOf(R)].Min

\* getDefaultLimits returned the Max of the second of two Container items
\* that both have lists.
C7_Witness ==
    /\ ret.fn = "getDefaultLimits"
    /\ Len(limitRanges[1]) = 2
    /\ ContainerItems(limitRanges[1]) = {1, 2}
    /\ limitRanges[1][1].Default # NIL
    /\ limitRanges[1][2].Default = NIL
    /\ ret.ptr # NIL
    /\ ret.ptr = limitRanges[1][2].Max

\* C8: whenever the transformer computes the app containers' default
\* requests, nbContainers is at least 1 and the invocation does not panic.
C8_DivisorAtLeastOne ==
    last.kind \in {"done", "panic"} => (last.nbContainers >= 1 /\ last.kind # "panic")

\* C9: an invocation leaves every map owned by a LimitRange as it was.
C9_PolicyListsUnchanged ==
    \A a \in DOMAIN last.heap : a[1] = "lr" => heap[a] = last.heap[a]

\* C10: idempotence. With at least one app container, a second invocation
\* with the same policy as the one before leaves every entry of every
\* container's Requests and Limits equal to what the first produced.
C10_Idempotent ==
    (/\ last.kind = "done"
     /\ last.prev.kind = "done"
     /\ last.prev.limitRange = last.res.limitRange
     /\ Len(pod.Containers) >= 1) =>
        \A s \in Slots(pod) : \A name \in ResourceNameSet :
            Read(heap, FieldPtr(pod, s), name) = Read(last.heap, FieldPtr(last.pod, s), name)

\* Two invocations in a row with the same policy on a pod that holds both a
\* container that came with lists of its own and one that came without.
C10_Witness ==
    /\ last.kind = "done"
    /\ last.prev.kind = "done"
    /\ last.prev.limitRange = last.res.limitRange
    /\ Len(pod.Containers) = 2
    /\ pod.Containers[1].Requests[1] = "pod"
    /\ pod.Containers[2].Requests[1] = "new"
    /\ Read(heap, pod.Containers[1].Requests, ResourceMemory) # 0

====
